---- MODULE Spec2Model ----
(***************************************************************************)
(* Model of ARLETConfig (src/arlet_config.py): the construction of the     *)
(* configuration object, step by step as __post_init__ runs it:            *)
(*   dataclass __init__ -> _validate_parameters -> _setup_logging          *)
(*   -> _init_firebase.                                                    *)
(*                                                                         *)
(* Python values are records tagged by type.  A float is a decimal         *)
(* m * 10^-e with no trailing zero in the fraction; a string is the        *)
(* sequence of its characters.  The process environment (os.environ),      *)
(* the outcome of opening the log file and the outcomes of the three       *)
(* firebase library calls are inputs.                                      *)
(***************************************************************************)
EXTENDS Integers, Sequences, FiniteSets, TLC

\* Longest value of ARLET_INITIAL_BALANCE that is enumerated.
MaxLen == 3

\* Characters the enumerated values of ARLET_INITIAL_BALANCE are built from.
Alphabet == {"-", "0", "5", "."}

(***************************************************************************)
(* Python values                                                           *)
(***************************************************************************)
None == [t |-> "None"]
\* An attribute that has not been assigned on the instance.
Unset == [t |-> "unset"]
\* A constructor argument that was not passed.
Absent == [t |-> "absent"]
Str(s) == [t |-> "str", s |-> s]
Float(m, e) == [t |-> "float", m |-> m, e |-> e]

RECURSIVE Pow10(_)
Pow10(e) == IF e = 0 THEN 1 ELSE 10 * Pow10(e - 1)

\* Strip the trailing zeros of the fraction: 50 * 10^-1 is 5 * 10^0.
RECURSIVE Normal(_, _)
Normal(m, e) ==
    IF e > 0 /\ m % 10 = 0 THEN Normal(m \div 10, e - 1) ELSE Float(m, e)

\* x <= 0, x > 0, x <= 1 and x >= 0 on floats.
LeZero(x) == x.m <= 0
GtZero(x) == x.m > 0
LeOne(x) == x.m <= Pow10(x.e)
GeZero(x) == x.m >= 0

\* Truth value of an Optional[str]: None and "" are false.
Truthy(v) == v # None /\ Len(v.s) > 0

(***************************************************************************)
(* float(str), on strings over Alphabet: [sign] digits [. digits] or       *)
(* [sign] . digits; anything else raises ValueError.                       *)
(***************************************************************************)
IsDigit(c) == c \in {"0", "5"}
DigitVal(c) == IF c = "5" THEN 5 ELSE 0

RECURSIVE DigitsVal(_)
DigitsVal(s) ==
    IF s = <<>> THEN 0
    ELSE 10 * DigitsVal(SubSeq(s, 1, Len(s) - 1)) + DigitVal(s[Len(s)])

AllDigits(s) == \A i \in 1..Len(s) : IsDigit(s[i])

HasSign(s) == Len(s) > 0 /\ s[1] \in {"-"}
Unsigned(s) == IF HasSign(s) THEN Tail(s) ELSE s

\* Position of the first "." of s, or Len(s) + 1 when there is none.
DotPos(s) ==
    IF \E i \in 1..Len(s) : s[i] = "."
    THEN CHOOSE i \in 1..Len(s) : s[i] = "." /\ \A j \in 1..(i - 1) : s[j] # "."
    ELSE Len(s) + 1
IntPart(s) == SubSeq(s, 1, DotPos(s) - 1)
FracPart(s) == SubSeq(s, DotPos(s) + 1, Len(s))

ParsesAsFloat(s) ==
    LET u == Unsigned(s) IN
        /\ AllDigits(IntPart(u))
        /\ AllDigits(FracPart(u))
        /\ Len(IntPart(u)) + Len(FracPart(u)) > 0

ParseFloat(s) ==
    LET u == Unsigned(s)
        mag == Normal(DigitsVal(IntPart(u) \o FracPart(u)), Len(FracPart(u)))
    IN  IF HasSign(s) THEN Float(0 - mag.m, mag.e) ELSE mag

(***************************************************************************)
(* Declared defaults of the dataclass fields                               *)
(***************************************************************************)
DefaultInitialBalance == Float(10000, 0)
DefaultMaxPositionSize == Float(1, 1)
DefaultLearningRate == Float(3, 4)
DefaultDiscountFactor == Float(99, 2)
DefaultFirebaseProjectId == None

(***************************************************************************)
(* Inputs                                                                  *)
(***************************************************************************)
RECURSIVE StringsUpTo(_)
StringsUpTo(n) ==
    IF n = 0 THEN {<<>>}
    ELSE LET shorter == StringsUpTo(n - 1) IN
         shorter \cup {Append(s, c) : s \in shorter, c \in Alphabet}

CredVars == {"FIREBASE_TYPE", "FIREBASE_PRIVATE_KEY_ID", "FIREBASE_PRIVATE_KEY",
             "FIREBASE_CLIENT_EMAIL", "FIREBASE_CLIENT_ID",
             "FIREBASE_CLIENT_CERT_URL"}
EnvVars == {"ARLET_INITIAL_BALANCE", "FIREBASE_PROJECT_ID"} \cup CredVars

\* The credential variables that are set: none, the type alone, or all.
CredChoices == {{}, {"FIREBASE_TYPE"}, CredVars}

Environments ==
    { [v \in EnvVars |->
         IF v = "ARLET_INITIAL_BALANCE" THEN b
         ELSE IF v = "FIREBASE_PROJECT_ID" THEN p
         ELSE IF v \in c THEN Str(<<"v">>) ELSE None] :
      b \in {None} \cup {Str(s) : s \in StringsUpTo(MaxLen)},
      p \in {None, Str(<<>>), Str(<<"p">>)},
      c \in CredChoices }

BalanceArgs == {Absent, Float(0 - 5, 0), Float(0, 0), Float(7, 0)}
PositionArgs == {Absent, Float(0, 0), Float(1, 0), Float(11, 1)}
RateArgs == {Absent, Float(0, 0)}
DiscountArgs == {Absent, Float(0 - 1, 1), Float(1, 0), Float(11, 1)}
ProjectArgs == {Absent, Str(<<"q">>)}

ArgSets ==
    [initial_balance : BalanceArgs, max_position_size : PositionArgs,
     learning_rate : RateArgs, discount_factor : DiscountArgs,
     firebase_project_id : ProjectArgs]

VARIABLES
    env,      \* os.environ
    args,     \* the constructor arguments, Absent where not passed
    self,     \* the instance under construction
    pc,       \* idle, validate, logging, firebase, done, failed
    error,    \* the exception that left the constructor, or None
    handlers, \* TRUE once the root logger has its handlers
    log,      \* the records logged through self.logger
    calls     \* the firebase library calls made, in order

vars == <<env, args, self, pc, error, handlers, log, calls>>

getenv(name) == env[name]

Or(a, default) == IF a = Absent THEN default ELSE a

Init ==
    /\ env \in Environments
    /\ args = None
    /\ self = None
    /\ pc = "idle"
    /\ error = None
    /\ handlers = FALSE
    /\ log = <<>>
    /\ calls = <<>>

\* The generated __init__: every field takes its argument or its default;
\* logger and db are not fields and are not assigned.
NewInstance(a) ==
    [initial_balance |-> Or(a.initial_balance, DefaultInitialBalance),
     max_position_size |-> Or(a.max_position_size, DefaultMaxPositionSize),
     learning_rate |-> Or(a.learning_rate, DefaultLearningRate),
     discount_factor |-> Or(a.discount_factor, DefaultDiscountFactor),
     firebase_project_id |-> Or(a.firebase_project_id, DefaultFirebaseProjectId),
     logger |-> Unset,
     db |-> Unset]

Construct ==
    /\ pc = "idle"
    /\ \E a \in ArgSets :
        /\ args' = a
        /\ self' = NewInstance(a)
    /\ pc' = "validate"
    /\ UNCHANGED <<env, error, handlers, log, calls>>

(***************************************************************************)
(* __post_init__: the steps, in the order they are called                  *)
(***************************************************************************)
PostInitSwapped == <<"validate", "firebase", "logging">>

PostInit == <<"validate", "logging", "firebase">>

\* Where control goes when `step` returns normally.
After(step) ==
    LET i == CHOOSE k \in 1..Len(PostInit) : PostInit[k] = step IN
        IF i < Len(PostInit) THEN PostInit[i + 1] ELSE "done"

Exc(type, msg) == [t |-> type, msg |-> msg]

(***************************************************************************)
(* _validate_parameters                                                    *)
(***************************************************************************)
\* Mutant: the upper end of discount_factor is not checked.
RangeErrorNoUpper(s) ==
    IF LeZero(s.initial_balance)
    THEN Exc("ValueError", "Initial balance must be positive")
    ELSE IF ~(GtZero(s.max_position_size) /\ LeOne(s.max_position_size))
    THEN Exc("ValueError", "Max position size must be between 0 and 1")
    ELSE IF LeZero(s.learning_rate)
    THEN Exc("ValueError", "Learning rate must be positive")
    ELSE IF ~GeZero(s.discount_factor)
    THEN Exc("ValueError", "Discount factor must be between 0 and 1")
    ELSE None

\* The four range checks: the first ValueError raised, or None.
RangeError(s) ==
    IF LeZero(s.initial_balance)
    THEN Exc("ValueError", "Initial balance must be positive")
    ELSE IF ~(GtZero(s.max_position_size) /\ LeOne(s.max_position_size))
    THEN Exc("ValueError", "Max position size must be between 0 and 1")
    ELSE IF LeZero(s.learning_rate)
    THEN Exc("ValueError", "Learning rate must be positive")
    ELSE IF ~(GeZero(s.discount_factor) /\ LeOne(s.discount_factor))
    THEN Exc("ValueError", "Discount factor must be between 0 and 1")
    ELSE None

\* Mutant: an empty ARLET_INITIAL_BALANCE is converted too.
EnvOverridesIfSet(v) == v # None

\* `if env_balance:`
EnvOverrides(v) == Truthy(v)

\* Mutant: the environment only replaces the declared default.
OverriddenBalanceDefaultOnly(s) ==
    IF s.initial_balance = DefaultInitialBalance
    THEN ParseFloat(getenv("ARLET_INITIAL_BALANCE").s)
    ELSE s.initial_balance

\* `self.initial_balance = float(env_balance)`
OverriddenBalance(s) == ParseFloat(getenv("ARLET_INITIAL_BALANCE").s)

\* Mutant: an argument is kept when the environment has no project id.
ProjectIdOrArgument(s) ==
    IF getenv("FIREBASE_PROJECT_ID") = None THEN s.firebase_project_id
    ELSE getenv("FIREBASE_PROJECT_ID")

\* `self.firebase_project_id = os.getenv("FIREBASE_PROJECT_ID")`
ProjectId(s) == getenv("FIREBASE_PROJECT_ID")

ValidateParameters ==
    /\ pc = "validate"
    /\ LET env_balance == getenv("ARLET_INITIAL_BALANCE") IN
       IF RangeError(self) # None
       THEN /\ error' = RangeError(self)
            /\ pc' = "failed"
            /\ UNCHANGED self
       ELSE IF EnvOverrides(env_balance) /\ ~ParsesAsFloat(env_balance.s)
       THEN /\ error' = Exc("ValueError", "could not convert string to float")
            /\ pc' = "failed"
            /\ UNCHANGED self
       ELSE /\ self' = [self EXCEPT
                   !.initial_balance =
                       IF EnvOverrides(env_balance) THEN OverriddenBalance(self)
                       ELSE @,
                   !.firebase_project_id = ProjectId(self)]
            /\ pc' = After("validate")
            /\ UNCHANGED error
    /\ UNCHANGED <<env, args, handlers, log, calls>>

(***************************************************************************)
(* _setup_logging                                                          *)
(***************************************************************************)
\* logging.FileHandler opens the log file when it is built: `opened` is
\* whether that open succeeds.  When it does not, the OSError leaves the
\* constructor before basicConfig is called.
SetupLogging ==
    /\ pc = "logging"
    /\ \E opened \in BOOLEAN :
        IF opened
        THEN /\ handlers' = TRUE
             /\ self' = [self EXCEPT !.logger = Str("ARLET")]
             /\ pc' = After("logging")
             /\ UNCHANGED error
        ELSE /\ error' = Exc("OSError", "log file cannot be opened")
             /\ pc' = "failed"
             /\ UNCHANGED <<self, handlers>>
    /\ UNCHANGED <<env, args, log, calls>>

(***************************************************************************)
(* _init_firebase                                                          *)
(***************************************************************************)
AuthUri == Str("https://accounts.google.com/o/oauth2/auth")
TokenUri == Str("https://oauth2.googleapis.com/token")
AuthProviderCertUrl == Str("https://www.googleapis.com/oauth2/v1/certs")

\* Mutant: the record holds the environment-sourced entries only.
CredDictEnvOnly(s) ==
    [k \in {"type", "private_key_id", "private_key", "client_email",
            "client_id", "client_x509_cert_url"} |->
        CASE k = "type" -> getenv("FIREBASE_TYPE")
          [] k = "private_key_id" -> getenv("FIREBASE_PRIVATE_KEY_ID")
          [] k = "private_key" -> getenv("FIREBASE_PRIVATE_KEY")
          [] k = "client_email" -> getenv("FIREBASE_CLIENT_EMAIL")
          [] k = "client_id" -> getenv("FIREBASE_CLIENT_ID")
          [] k = "client_x509_cert_url" -> getenv("FIREBASE_CLIENT_CERT_URL")]

\* The credential record as first assembled, None for every unset variable.
CredDict(s) ==
    [k \in {"type", "project_id", "private_key_id", "private_key",
            "client_email", "client_id", "auth_uri", "token_uri",
            "auth_provider_x509_cert_url", "client_x509_cert_url"} |->
        CASE k = "type" -> getenv("FIREBASE_TYPE")
          [] k = "project_id" -> s.firebase_project_id
          [] k = "private_key_id" -> getenv("FIREBASE_PRIVATE_KEY_ID")
          [] k = "private_key" -> getenv("FIREBASE_PRIVATE_KEY")
          [] k = "client_email" -> getenv("FIREBASE_CLIENT_EMAIL")
          [] k = "client_id" -> getenv("FIREBASE_CLIENT_ID")
          [] k = "auth_uri" -> AuthUri
          [] k = "token_uri" -> TokenUri
          [] k = "auth_provider_x509_cert_url" -> AuthProviderCertUrl
          [] k = "client_x509_cert_url" -> getenv("FIREBASE_CLIENT_CERT_URL")]

\* `{k: v for k, v in cred_dict.items() if v is not None}`
FilterNone(d) == [k \in {j \in DOMAIN d : d[j] # None} |-> d[k]]

\* The exceptions the firebase library calls are taken to raise.
LibraryErrors == {"ValueError", "OSError", "GoogleAPIError"}

\* Mutant: the handler is `except ValueError`.
CatchesValueErrorOnly(type) == type = "ValueError"

\* `except Exception`
Catches(type) == type \in LibraryErrors \cup {"Exception"}

\* The handle stored by the handler (the right-hand side of line 140).
DbAfterFailure == None

\* The handle when no project id is set.
DbWithoutProject == None

Client == [t |-> "Client"]

Call(fn, arg, raised) == [fn |-> fn, arg |-> arg, raised |-> raised]

\* A library call that returns raises "none".
Returns == "none"

\* The three library calls of the try block, made in order until one
\* raises; `o` gives the outcome of each: Returns, or the exception type.
LibraryCalls(cred, o) ==
    LET c1 == <<Call("credentials.Certificate", DOMAIN cred, o[1])>>
        c2 == <<Call("firebase_admin.initialize_app", {}, o[2])>>
        c3 == <<Call("firestore.client", {}, o[3])>>
    IN  IF o[1] # Returns THEN c1
        ELSE IF o[2] # Returns THEN c1 \o c2
        ELSE c1 \o c2 \o c3

Raised(cs) == cs[Len(cs)].raised

Record(level, msg, exc) == [level |-> level, msg |-> msg, exc |-> exc]

InitFirebase ==
    /\ pc = "firebase"
    /\ IF Truthy(self.firebase_project_id)
       THEN LET cred == FilterNone(CredDict(self)) IN
            IF DOMAIN cred # {}
            THEN \E o \in [1..3 -> {Returns} \cup LibraryErrors] :
                 LET cs == LibraryCalls(cred, o) IN
                 /\ calls' = calls \o cs
                 /\ IF Raised(cs) = Returns
                    THEN /\ self' = [self EXCEPT !.db = Client]
                         /\ log' = Append(log,
                                Record("INFO", "Firebase initialized successfully", Returns))
                         /\ pc' = After("firebase")
                         /\ UNCHANGED error
                    ELSE IF Catches(Raised(cs))
                    THEN /\ self' = [self EXCEPT !.db = DbAfterFailure]
                         /\ log' = Append(log,
                                Record("ERROR", "Firebase initialization failed", Raised(cs)))
                         /\ pc' = After("firebase")
                         /\ UNCHANGED error
                    ELSE /\ error' = Exc(Raised(cs), "firebase")
                         /\ pc' = "failed"
                         /\ UNCHANGED <<self, log>>
            ELSE /\ self' = [self EXCEPT !.db = None]
                 /\ log' = Append(log,
                        Record("WARNING", "Firebase credentials not found, using local mode", Returns))
                 /\ pc' = After("firebase")
                 /\ UNCHANGED <<error, calls>>
       ELSE /\ self' = [self EXCEPT !.db = DbWithoutProject]
            /\ pc' = After("firebase")
            /\ UNCHANGED <<error, log, calls>>
    /\ UNCHANGED <<env, args, handlers>>

Next ==
    \/ Construct
    \/ ValidateParameters
    \/ SetupLogging
    \/ InitFirebase

Spec == Init /\ [][Next]_vars

(***************************************************************************)
(* Properties                                                              *)
(***************************************************************************)
\* The fields as the constructor call supplied or defaulted them.
Supplied == NewInstance(args)

\* One of the four range conditions is violated by the fields f.
ViolatesRange(f) ==
    \/ f.initial_balance.m <= 0
    \/ ~(0 < f.max_position_size.m /\ f.max_position_size.m <= Pow10(f.max_position_size.e))
    \/ f.learning_rate.m <= 0
    \/ ~(0 <= f.discount_factor.m /\ f.discount_factor.m <= Pow10(f.discount_factor.e))

RangeMessages ==
    {"Initial balance must be positive",
     "Max position size must be between 0 and 1",
     "Learning rate must be positive",
     "Discount factor must be between 0 and 1"}

\* The constructor has returned or raised.
Finished == pc \in {"done", "failed"}
\* _validate_parameters has returned normally.
Validated == pc \in {"logging", "firebase", "done"} \/ (pc = "failed" /\ error.t # "ValueError")

\* C1: a construction whose supplied or defaulted fields violate one of the
\* four range checks fails in _validate_parameters with the ValueError of a
\* range check, and no instance is returned.
C1_InvalidFieldsFail ==
    (pc \notin {"idle", "validate"} /\ ViolatesRange(Supplied)) =>
        /\ pc = "failed"
        /\ error \in {Exc("ValueError", m) : m \in RangeMessages}

C1_Witness ==
    /\ pc = "failed"
    /\ args.discount_factor = Float(11, 1)
    /\ error = Exc("ValueError", "Discount factor must be between 0 and 1")

\* C2: after every successful construction all four numeric constraints
\* hold on the instance.
C2_ConstraintsHoldWhenConstructed ==
    pc = "done" => ~ViolatesRange(self)

\* C3: once the range checks on the fields have passed, construction never
\* fails, whatever the environment and the outcome of logging setup and
\* backend initialisation.
C3_NoFailureAfterRangeChecks ==
    (pc # "idle" /\ ~ViolatesRange(Supplied)) => pc # "failed"

\* C4: when FIREBASE_PROJECT_ID is set and a call of backend initialisation
\* raises, construction succeeds, db is None and the last record logged is
\* the error; nothing is propagated.
C4_BackendFailureAbsorbed ==
    (calls # <<>> /\ Raised(calls) # Returns) =>
        /\ Truthy(getenv("FIREBASE_PROJECT_ID"))
        /\ pc = "done"
        /\ error = None
        /\ self.db = None
        /\ log # <<>>
        /\ log[Len(log)] = Record("ERROR", "Firebase initialization failed", Raised(calls))

C4_Witness ==
    /\ pc = "done"
    /\ Len(calls) = 3
    /\ Raised(calls) = "OSError"
    /\ self.db = None

\* C5: with none of the FIREBASE_* variables set, construction with valid
\* fields raises no exception and db is present and None.
C5_NoBackendEnvConstructs ==
    (/\ Finished
     /\ \A v \in CredVars \cup {"FIREBASE_PROJECT_ID"} : getenv(v) = None
     /\ ~ViolatesRange(Supplied)) =>
        /\ pc = "done"
        /\ error = None
        /\ self.db = None

\* C6: when ARLET_INITIAL_BALANCE parses as a float and the supplied fields
\* pass the range checks, initial_balance is the parsed value, whatever was
\* supplied or defaulted, and it is not validated again.
C6_EnvBalanceOverrides ==
    LET b == getenv("ARLET_INITIAL_BALANCE") IN
    (pc \in {"logging", "firebase", "done"} /\ b # None /\ ParsesAsFloat(b.s)) =>
        /\ self.initial_balance = ParseFloat(b.s)
        /\ b = Str(<<"-", "5">>) => self.initial_balance = Float(0 - 5, 0)
        /\ b = Str(<<"5", ".", "0">>) => self.initial_balance = Float(5, 0)
        /\ b = Str(<<".", "5">>) => self.initial_balance = Float(5, 1)
        /\ b = Str(<<"0">>) => self.initial_balance = Float(0, 0)

C6_Witness ==
    /\ pc = "done"
    /\ args.initial_balance = Float(7, 0)
    /\ getenv("ARLET_INITIAL_BALANCE") = Str(<<"-", "5">>)
    /\ self.initial_balance = Float(0 - 5, 0)

\* C7: with no argument passed and ARLET_INITIAL_BALANCE unset or empty,
\* validation raises nothing and initial_balance is the default 10000.0.
C7_DefaultBalance ==
    (/\ pc # "idle"
     /\ \A f \in DOMAIN args : args[f] = Absent
     /\ getenv("ARLET_INITIAL_BALANCE") \in {None, Str(<<>>)}) =>
        /\ error.t # "ValueError"
        /\ self.initial_balance = Float(10000, 0)

C7_Witness ==
    /\ pc = "done"
    /\ \A f \in DOMAIN args : args[f] = Absent
    /\ getenv("ARLET_INITIAL_BALANCE") = Str(<<>>)
    /\ self.initial_balance = Float(10000, 0)

\* C8: the steps run in the order validate, logging, backend: logging is
\* configured only after validation passed, the backend step starts and acts
\* only with the logger configured, and a failed validation leaves logging
\* and the backend untouched.
C8_StrictOrder ==
    pc # "idle" =>
        /\ pc = "logging" => (~ViolatesRange(Supplied) /\ calls = <<>> /\ self.db = Unset)
        /\ handlers => ~ViolatesRange(Supplied)
        /\ pc = "firebase" => (handlers /\ self.logger = Str("ARLET"))
        /\ (calls # <<>> \/ log # <<>> \/ self.db # Unset) =>
               (handlers /\ self.logger = Str("ARLET"))
        /\ (pc = "failed" /\ error.t = "ValueError") =>
               /\ ~handlers
               /\ self.logger = Unset
               /\ self.db = Unset
               /\ calls = <<>>
               /\ log = <<>>

C8_Witness ==
    /\ pc = "done"
    /\ handlers
    /\ calls # <<>>
    /\ log # <<>>

\* C9: after a successful construction firebase_project_id is the value of
\* FIREBASE_PROJECT_ID (None when unset) whatever argument was passed, and
\* no backend call is made unless that variable is set and not empty.
C9_ProjectIdFromEnvOnly ==
    /\ pc = "done" => self.firebase_project_id = getenv("FIREBASE_PROJECT_ID")
    /\ calls # <<>> => Truthy(getenv("FIREBASE_PROJECT_ID"))

C9_Witness ==
    /\ pc = "done"
    /\ args.firebase_project_id = Str(<<"q">>)
    /\ getenv("FIREBASE_PROJECT_ID") = None
    /\ self.firebase_project_id = None
    /\ calls = <<>>

\* C10: when the backend step runs with a project id, the filtered record
\* holds project_id and the three fixed URLs, credentials.Certificate is
\* called with it, and the "credentials not found" warning is never logged.
FixedKeys == {"project_id", "auth_uri", "token_uri", "auth_provider_x509_cert_url"}

C10_CredentialsNeverEmpty ==
    /\ (pc = "firebase" /\ Truthy(self.firebase_project_id)) =>
           LET cred == FilterNone(CredDict(self)) IN
               /\ FixedKeys \subseteq DOMAIN cred
               /\ cred["auth_uri"].s = "https://accounts.google.com/o/oauth2/auth"
    /\ (pc = "done" /\ Truthy(self.firebase_project_id)) =>
           /\ calls # <<>>
           /\ calls[1].fn = "credentials.Certificate"
           /\ FixedKeys \subseteq calls[1].arg
    /\ \A i \in 1..Len(log) : log[i].level # "WARNING"

C10_Witness ==
    /\ pc = "done"
    /\ Truthy(self.firebase_project_id)
    /\ \A v \in CredVars : getenv(v) = None
    /\ calls # <<>>
    /\ calls[1].arg = FixedKeys
====
